---- MODULE Spec2Model ----
(***************************************************************************)
(* Model of the storyboard generator's session state (src/App.tsx): the    *)
(* React state of App, the asynchronous handlers that suspend at provider  *)
(* calls and at the pacing timer, and the UI conditions under which each   *)
(* handler can be triggered.  A handler runs on the values its render      *)
(* closed over, so a suspended handler keeps the scenes, aspect ratio and  *)
(* style of the render it was started from.  Each action is one            *)
(* synchronous segment of the single-threaded event loop.                  *)
(***************************************************************************)
EXTENDS Integers, Sequences, FiniteSets, TLC

\* ------------------------------------------------------------------ bounds
MaxScenes == 2      \* longest scene array a decomposition response holds
MaxIds == 2         \* scene ids allocated over a run (fresh UUIDs)
MaxInflight == 2    \* unresolved image requests at once
MaxSettings == 1    \* setting changes a run makes: character upload, aspect
                    \* ratio switch, prompt editor opened
MaxUploads == 2     \* character uploads a run of StyleSpec makes
MaxStyleScenes == 1 \* longest scene array in a run of StyleSpec

\* ------------------------------------------------------------------ inputs
Prompts == {"p1", "p2"}
ImageBytes == {"b1"}
\* response.generatedImages of a successful generateImages call
ImageResponses == {<<>>} \cup {<<b>> : b \in ImageBytes}
\* what a rejected provider call throws: an Error, named by its message
\* (MessageOf reads "nonError" as a thrown value that is no Error)
Thrown == {"quota"}
StyleProfiles ==
  {[character_description |-> "cd1", artistic_style |-> "as1"]}
Files == {"img1"}

NoError == <<>>
NoStyle == [character_description |-> "", artistic_style |-> ""]
NoFile == "none"
NoScene == [id |-> 0, scene |-> 0, prompt |-> ""]

\* display number the text provider gives to the i-th scene of a response
SceneNo(i) == 100 + i
\* JSON.parse(response.text) of a decomposition that parses as an array
ParsedResponses ==
  {[i \in 1..n |-> [scene |-> SceneNo(i), prompt |-> "p1"]] : n \in 0..MaxScenes}

VARIABLES
  user,               \* a user is signed in
  scenes,             \* Scene Store
  isProcessingPdf,
  characterImage,
  characterStyle,     \* StyleProfile or NoStyle
  isAnalyzingStyle,
  generatedImages,    \* GenerationResult: function scene id -> URLs
  generatingSceneIds, \* GenerationStatus
  error,
  aspectRatio,
  isGeneratingAll,
  stopGenerationRef,
  editing,            \* scene ids whose card has its prompt editor open
  requests,           \* unresolved generateImages calls, in issue order
  pdfCalls,           \* unresolved decomposition calls
  styleCalls,         \* unresolved style analysis calls
  batch,              \* the handleGenerateAll invocation and its closure
  nextId,             \* next fresh scene id
  settings,           \* setting changes made so far
  lastEvent,          \* history: whether the last step was an image request
                      \* resolving ("success"), rejecting ("fail"), the
                      \* end of handleGenerateAll ("ended"), the style
                      \* analysis rejecting with no profile active
                      \* ("styleFail") or with one ("styleFailActive"),
                      \* a click on Generate All after a batch in which
                      \* a stop was signalled ("afterStop"),
                      \* or other
  lastResp            \* history: the images the last step's request
                      \* resolved with

vars == <<user, scenes, isProcessingPdf, characterImage, characterStyle,
          isAnalyzingStyle, generatedImages, generatingSceneIds, error,
          aspectRatio, isGeneratingAll, stopGenerationRef, editing, requests,
          pdfCalls, styleCalls, batch, nextId, settings, lastEvent,
          lastResp>>

\* ----------------------------------------------------------------- helpers
SeqIds(ss) == [i \in 1..Len(ss) |-> ss[i].id]
IdSet(ss) == {ss[i].id : i \in 1..Len(ss)}
RemoveAt(s, i) == SubSeq(s, 1, i - 1) \o SubSeq(s, i + 1, Len(s))

RECURSIVE Filter(_, _)
\* scenes.filter((s) => !generatedImages[s.id])
Filter(ss, gi) ==
  IF ss = <<>> THEN <<>>
  ELSE IF Head(ss).id \in DOMAIN gi THEN Filter(Tail(ss), gi)
       ELSE <<Head(ss)>> \o Filter(Tail(ss), gi)

\* a candidate list that drops only the scenes that have an image
ScenesToGenerate_ByImage(ss, gi) ==
  SelectSeq(ss, LAMBDA sc : ~(sc.id \in DOMAIN gi /\ gi[sc.id] # <<>>))

ScenesToGenerate(ss, gi) == Filter(ss, gi)

\* scenes.find((s) => s.id === sceneId)
FindScene(ss, sceneId) ==
  IF \E i \in 1..Len(ss) : ss[i].id = sceneId
  THEN ss[CHOOSE i \in 1..Len(ss) :
            /\ ss[i].id = sceneId
            /\ \A j \in 1..(i - 1) : ss[j].id # sceneId]
  ELSE NoScene

qualityKeywords ==
  "masterpiece, best quality, high quality, absurdres, ultra-detailed"

PromptSuffix == <<". Technical keywords for quality: ", qualityKeywords, ".">>

\* a composer that appends the quality keywords to the plain prompt only
ComposePrompt_SuffixOnPlain(scene, style) ==
  IF style # NoStyle
  THEN <<"In the specific artistic style of \"", style.artistic_style,
         "\", generate the following scene: \"", scene.prompt,
         "\" CRITICAL: The main character(s) in this scene MUST strictly conform to this detailed description: \"",
         style.character_description,
         "\". This is a mandatory requirement. IMPORTANT FOR TEXT: If the scene description includes text, render it with extreme accuracy and detail as specified.">>
  ELSE <<scene.prompt>> \o PromptSuffix

\* a composer that puts the character description before the scene
ComposePrompt_DescriptionFirst(scene, style) ==
  (IF style # NoStyle
   THEN <<"In the specific artistic style of \"", style.artistic_style,
          "\". CRITICAL: The main character(s) MUST strictly conform to this detailed description: \"",
          style.character_description,
          "\". Generate the following scene: \"", scene.prompt,
          "\". IMPORTANT FOR TEXT: If the scene description includes text, render it with extreme accuracy and detail as specified.">>
   ELSE <<scene.prompt>>)
  \o PromptSuffix

\* finalPrompt of generateImageForScene, as the sequence of its pieces
ComposePrompt(scene, style) ==
  (IF style # NoStyle
   THEN <<"In the specific artistic style of \"", style.artistic_style,
          "\", generate the following scene: \"", scene.prompt,
          "\" CRITICAL: The main character(s) in this scene MUST strictly conform to this detailed description: \"",
          style.character_description,
          "\". This is a mandatory requirement. IMPORTANT FOR TEXT: If the scene description includes text, render it with extreme accuracy and detail as specified.">>
   ELSE <<scene.prompt>>)
  \o PromptSuffix

\* a mapping that leaves the data URL prefix empty
DataUrls_NoPrefix(resp) == [i \in 1..Len(resp) |-> <<"", resp[i]>>]

\* response.generatedImages.map(image => `data:image/jpeg;base64,${...}`)
DataUrls(resp) == [i \in 1..Len(resp) |-> <<"data:image/jpeg;base64,", resp[i]>>]

\* e instanceof Error ? e.message : fallback
MessageOf(thrown, fallback) == IF thrown = "nonError" THEN fallback ELSE thrown

\* the Error generateImageForScene rethrows
GenerationFailure(num, thrown) ==
  <<"Image generation failed for scene ", num, ": ",
    MessageOf(thrown, "An unknown error occurred")>>

\* an error report that shows the position in the response, not scene.scene
GenerationError_WrongNumber(num, thrown) ==
  [title |-> <<"Failed to generate image for scene ", num - 100, ".">>,
   message |-> GenerationFailure(num, thrown)]

\* the error handleGenerateImage reports: title and message
GenerationError(num, thrown) ==
  [title |-> <<"Failed to generate image for scene ", num, ".">>,
   message |-> GenerationFailure(num, thrown)]

isGlobalOperationRunning == isGeneratingAll \/ isAnalyzingStyle

\* the storyboard view (scene cards, toolbar) is what App renders
StoryboardShown == user /\ scenes # <<>>
\* the upload page is what App renders
UploadPageShown == user /\ scenes = <<>>

\* the render branches that hold {error && <ErrorModal .../>}: the sign-in
\* page and the storyboard, not the upload page
ErrorModalShown == error # NoError /\ (~user \/ scenes # <<>>)

\* a card that is disabled by its own request only
isDisabled_LoadingOnly(sceneId) == sceneId \in generatingSceneIds

\* VideoCard's isDisabled for the card of sceneId
isDisabled(sceneId) ==
  sceneId \in generatingSceneIds \/ isGlobalOperationRunning

\* cards are mounted only in the storyboard view, keyed by scene id
Mounted(u, ss, ed) == IF u /\ ss # <<>> THEN ed \cap IdSet(ss) ELSE {}

\* The handleGenerateAll invocation: where it is suspended (pc), what its
\* closure holds (scenes, cands, aspectRatio, characterStyle), the number of
\* loop passes begun (i), and history: the store ids and the result keys at the
\* click (startIds, startKeys), the candidates' ids (candIds), the scene ids
\* of the requests it issued (issued), i and pc when the stop signal was
\* first set (stopAt, stopPc), the pacing delays that elapsed (delays), the
\* scene ids whose request rejected (failed), and the way the last
\* invocation ended (exit).
IdleBatch ==
  [pc |-> "idle", scenes |-> <<>>, cands |-> <<>>, i |-> 0,
   aspectRatio |-> "16:9", characterStyle |-> NoStyle,
   startIds |-> <<>>, startKeys |-> {}, candIds |-> <<>>, issued |-> <<>>,
   stopAt |-> -1, stopPc |-> "none", delays |-> 0, failed |-> {},
   exit |-> "none", startInflight |-> 0, returned |-> [k \in {} |-> <<>>],
   loops |-> 0]

Other == "other"

Init ==
  /\ user = FALSE
  /\ scenes = <<>>
  /\ isProcessingPdf = FALSE
  /\ characterImage = NoFile
  /\ characterStyle = NoStyle
  /\ isAnalyzingStyle = FALSE
  /\ generatedImages = [k \in {} |-> <<>>]
  /\ generatingSceneIds = {}
  /\ error = NoError
  /\ aspectRatio = "16:9"
  /\ isGeneratingAll = FALSE
  /\ stopGenerationRef = FALSE
  /\ editing = {}
  /\ requests = <<>>
  /\ pdfCalls = 0
  /\ styleCalls = 0
  /\ batch = IdleBatch
  /\ nextId = 1
  /\ settings = 0
  /\ lastEvent = Other
  /\ lastResp = <<>>

\* ----------------------------------------------------------------- sign-in
\* handleLoginSuccess with a token that decodes, or the demo identity
handleLoginSuccess ==
  /\ ~user
  /\ user' = TRUE
  /\ editing' = Mounted(TRUE, scenes, editing)
  /\ lastEvent' = Other
  /\ lastResp' = <<>>
  /\ UNCHANGED <<scenes, isProcessingPdf, characterImage, characterStyle,
                 isAnalyzingStyle, generatedImages, generatingSceneIds, error,
                 aspectRatio, isGeneratingAll, stopGenerationRef, requests,
                 pdfCalls, styleCalls, batch, nextId,
                 settings>>

handleSignOut ==
  /\ user
  /\ user' = FALSE
  /\ scenes' = <<>>
  /\ generatedImages' = [k \in {} |-> <<>>]
  /\ characterImage' = NoFile
  /\ characterStyle' = NoStyle
  /\ editing' = {}
  /\ lastEvent' = Other
  /\ lastResp' = <<>>
  /\ UNCHANGED <<isProcessingPdf, isAnalyzingStyle, generatingSceneIds, error,
                 aspectRatio, isGeneratingAll, stopGenerationRef, requests,
                 pdfCalls, styleCalls, batch, nextId,
                 settings>>

\* onClose of ErrorModal, which the upload page does not render
DismissError ==
  /\ error # NoError
  /\ ~user \/ scenes # <<>>
  /\ error' = NoError
  /\ lastEvent' = Other
  /\ lastResp' = <<>>
  /\ UNCHANGED <<user, scenes, isProcessingPdf, characterImage, characterStyle,
                 isAnalyzingStyle, generatedImages, generatingSceneIds,
                 aspectRatio, isGeneratingAll, stopGenerationRef, editing,
                 requests, pdfCalls, styleCalls, batch, nextId,
                 settings>>

\* -------------------------------------------------------- script decomposition
\* handlePdfUpload up to its first await
handlePdfUpload ==
  /\ UploadPageShown
  /\ ~isProcessingPdf
  /\ isProcessingPdf' = TRUE
  /\ error' = NoError
  /\ scenes' = <<>>
  /\ generatedImages' = [k \in {} |-> <<>>]
  /\ pdfCalls' = pdfCalls + 1
  /\ editing' = {}
  /\ lastEvent' = Other
  /\ lastResp' = <<>>
  /\ UNCHANGED <<user, characterImage, characterStyle, isAnalyzingStyle,
                 generatingSceneIds, aspectRatio, isGeneratingAll,
                 stopGenerationRef, requests, styleCalls, batch, nextId,
                 settings>>

\* parsedScenes: each parsed entry with a fresh id
WithIds(parsed, first) ==
  [i \in 1..Len(parsed) |->
     [id |-> first + i - 1, scene |-> parsed[i].scene, prompt |-> parsed[i].prompt]]

\* the decomposition call resolves with text that parses as an array
PdfResolved(parsed) ==
  /\ pdfCalls > 0
  /\ nextId + Len(parsed) - 1 <= MaxIds
  /\ scenes' = WithIds(parsed, nextId)
  /\ nextId' = nextId + Len(parsed)
  /\ isProcessingPdf' = FALSE
  /\ pdfCalls' = pdfCalls - 1
  /\ editing' = Mounted(user, scenes', editing)
  /\ lastEvent' = Other
  /\ lastResp' = <<>>
  /\ UNCHANGED <<user, characterImage, characterStyle, isAnalyzingStyle,
                 generatedImages, generatingSceneIds, error, aspectRatio,
                 isGeneratingAll, stopGenerationRef, requests, styleCalls,
                 batch,
                 settings>>

\* the file read or the call rejects, or the text does not parse
PdfFailed(thrown) ==
  /\ pdfCalls > 0
  /\ error' = [title |-> <<"Failed to process PDF.">>,
               message |-> <<MessageOf(thrown, "An unknown error occurred")>>]
  /\ isProcessingPdf' = FALSE
  /\ pdfCalls' = pdfCalls - 1
  /\ lastEvent' = Other
  /\ lastResp' = <<>>
  /\ UNCHANGED <<user, scenes, characterImage, characterStyle,
                 isAnalyzingStyle, generatedImages, generatingSceneIds,
                 aspectRatio, isGeneratingAll, stopGenerationRef, editing,
                 requests, styleCalls, batch, nextId,
                 settings>>

\* -------------------------------------------------------------- style analysis
\* handleCharacterImageUpload up to its first await
handleCharacterImageUpload(file) ==
  /\ StoryboardShown
  /\ ~isGlobalOperationRunning
  /\ characterImage' = file
  /\ isAnalyzingStyle' = TRUE
  /\ error' = NoError
  /\ styleCalls' = styleCalls + 1
  /\ settings' = settings + 1
  /\ lastEvent' = Other
  /\ lastResp' = <<>>
  /\ UNCHANGED <<user, scenes, isProcessingPdf, characterStyle,
                 generatedImages, generatingSceneIds, aspectRatio,
                 isGeneratingAll, stopGenerationRef, editing, requests,
                 pdfCalls, batch, nextId>>

StyleResolved(profile) ==
  /\ styleCalls > 0
  /\ characterStyle' = profile
  /\ isAnalyzingStyle' = FALSE
  /\ styleCalls' = styleCalls - 1
  /\ lastEvent' = Other
  /\ lastResp' = <<>>
  /\ UNCHANGED <<user, scenes, isProcessingPdf, characterImage,
                 generatedImages, generatingSceneIds, error, aspectRatio,
                 isGeneratingAll, stopGenerationRef, editing, requests,
                 pdfCalls, batch, nextId,
                 settings>>

\* a catch branch that discards the image and keeps the profile
StyleFailed_KeepsProfile(thrown) ==
  /\ styleCalls > 0
  /\ error' = [title |-> <<"Failed to analyze character style.">>,
               message |-> <<MessageOf(thrown, "An unknown error occurred")>>]
  /\ characterImage' = NoFile
  /\ isAnalyzingStyle' = FALSE
  /\ styleCalls' = styleCalls - 1
  /\ lastEvent' = IF characterStyle = NoStyle THEN "styleFail"
                  ELSE "styleFailActive"
  /\ lastResp' = <<>>
  /\ UNCHANGED <<user, scenes, isProcessingPdf, characterStyle,
                 generatedImages,
                 generatingSceneIds, aspectRatio, isGeneratingAll,
                 stopGenerationRef, editing, requests, pdfCalls, batch,
                 nextId,
                 settings>>

StyleFailed(thrown) ==
  /\ styleCalls > 0
  /\ error' = [title |-> <<"Failed to analyze character style.">>,
               message |-> <<MessageOf(thrown, "An unknown error occurred")>>]
  /\ characterStyle' = NoStyle
  /\ characterImage' = NoFile
  /\ isAnalyzingStyle' = FALSE
  /\ styleCalls' = styleCalls - 1
  /\ lastEvent' = IF characterStyle = NoStyle THEN "styleFail"
                  ELSE "styleFailActive"
  /\ lastResp' = <<>>
  /\ UNCHANGED <<user, scenes, isProcessingPdf, generatedImages,
                 generatingSceneIds, aspectRatio, isGeneratingAll,
                 stopGenerationRef, editing, requests, pdfCalls, batch,
                 nextId,
                 settings>>

handleClearCharacter ==
  /\ StoryboardShown
  /\ characterImage # NoFile
  /\ ~isGlobalOperationRunning
  /\ characterImage' = NoFile
  /\ characterStyle' = NoStyle
  /\ lastEvent' = Other
  /\ lastResp' = <<>>
  /\ UNCHANGED <<user, scenes, isProcessingPdf, isAnalyzingStyle,
                 generatedImages, generatingSceneIds, error, aspectRatio,
                 isGeneratingAll, stopGenerationRef, editing, requests,
                 pdfCalls, styleCalls, batch, nextId,
                 settings>>

setAspectRatio(ar) ==
  /\ StoryboardShown
  /\ settings < MaxSettings
  /\ aspectRatio # ar
  /\ aspectRatio' = ar
  /\ settings' = settings + 1
  /\ lastEvent' = Other
  /\ lastResp' = <<>>
  /\ UNCHANGED <<user, scenes, isProcessingPdf, characterImage, characterStyle,
                 isAnalyzingStyle, generatedImages, generatingSceneIds, error,
                 isGeneratingAll, stopGenerationRef, editing, requests,
                 pdfCalls, styleCalls, batch, nextId>>

\* ------------------------------------------------------------- prompt editing
\* the pencil button of a card: VideoCard's setIsEditing(true)
OpenEditor(sceneId) ==
  /\ StoryboardShown
  /\ settings < MaxSettings
  /\ sceneId \in IdSet(scenes) \ editing
  /\ ~isDisabled(sceneId)
  /\ editing' = editing \cup {sceneId}
  /\ settings' = settings + 1
  /\ lastEvent' = Other
  /\ lastResp' = <<>>
  /\ UNCHANGED <<user, scenes, isProcessingPdf, characterImage, characterStyle,
                 isAnalyzingStyle, generatedImages, generatingSceneIds, error,
                 aspectRatio, isGeneratingAll, stopGenerationRef, requests,
                 pdfCalls, styleCalls, batch, nextId>>

\* scenes.map((s) => (s.id === sceneId ? {...s, prompt: newPrompt} : s))
WithPrompt(ss, sceneId, newPrompt) ==
  [i \in 1..Len(ss) |->
     IF ss[i].id = sceneId THEN [ss[i] EXCEPT !.prompt = newPrompt] ELSE ss[i]]

\* VideoCard.handleSave -> handleUpdateScenePrompt
handleSave(sceneId, newPrompt) ==
  /\ StoryboardShown
  /\ sceneId \in editing
  /\ scenes' = WithPrompt(scenes, sceneId, newPrompt)
  /\ editing' = editing \ {sceneId}
  /\ lastEvent' = Other
  /\ lastResp' = <<>>
  /\ UNCHANGED <<user, isProcessingPdf, characterImage, characterStyle,
                 isAnalyzingStyle, generatedImages, generatingSceneIds, error,
                 aspectRatio, isGeneratingAll, stopGenerationRef, requests,
                 pdfCalls, styleCalls, batch, nextId,
                 settings>>

\* VideoCard.handleCancel
handleCancel(sceneId) ==
  /\ StoryboardShown
  /\ sceneId \in editing
  /\ editing' = editing \ {sceneId}
  /\ lastEvent' = Other
  /\ lastResp' = <<>>
  /\ UNCHANGED <<user, scenes, isProcessingPdf, characterImage, characterStyle,
                 isAnalyzingStyle, generatedImages, generatingSceneIds, error,
                 aspectRatio, isGeneratingAll, stopGenerationRef, requests,
                 pdfCalls, styleCalls, batch, nextId,
                 settings>>

\* ------------------------------------------------------ single-scene generation
\* the generateImages call of generateImageForScene
ImageRequest(scene, ar, style, by) ==
  [sceneId |-> scene.id, num |-> scene.scene,
   prompt |-> ComposePrompt(scene, style), aspectRatio |-> ar, by |-> by,
   scenePrompt |-> scene.prompt, characterStyle |-> style]

\* requests after handleGenerateImage(sceneId) ran up to its await, on the
\* scenes, aspect ratio and style its closure holds
RequestsAfterEntry(ss, sceneId, ar, style, by) ==
  IF FindScene(ss, sceneId) = NoScene THEN requests
  ELSE Append(requests, ImageRequest(FindScene(ss, sceneId), ar, style, by))

\* new Set(prev).add(sceneId)
StatusOnEntry(prev, sceneId) == prev \cup {sceneId}

\* a handler without the finally block
StatusOnExit_Keeps(prev, sceneId) == prev

\* the finally block: newSet.delete(sceneId)
StatusOnExit(prev, sceneId) == prev \ {sceneId}

\* handleGenerateImage(sceneId) up to its await
GenerateEntry(ss, sceneId, ar, style, by) ==
  /\ requests' = RequestsAfterEntry(ss, sceneId, ar, style, by)
  /\ IF FindScene(ss, sceneId) = NoScene
     THEN UNCHANGED <<generatingSceneIds, error>>
     ELSE /\ generatingSceneIds' = StatusOnEntry(generatingSceneIds, sceneId)
          /\ error' = NoError

\* the Generate Image / Regenerate button of a card
handleGenerateImage(sceneId) ==
  /\ StoryboardShown
  /\ sceneId \in IdSet(scenes)
  /\ ~isDisabled(sceneId)
  /\ Len(requests) < MaxInflight
  /\ GenerateEntry(scenes, sceneId, aspectRatio, characterStyle, "single")
  /\ lastEvent' = Other
  /\ lastResp' = <<>>
  /\ UNCHANGED <<user, scenes, isProcessingPdf, characterImage, characterStyle,
                 isAnalyzingStyle, generatedImages, aspectRatio,
                 isGeneratingAll, stopGenerationRef, editing, pdfCalls,
                 styleCalls, batch, nextId,
                 settings>>

\* an update that appends the new URLs to the ones the scene has
WithResult_Append(prev, sceneId, urls) ==
  [k \in DOMAIN prev \cup {sceneId} |->
     IF k # sceneId THEN prev[k]
     ELSE IF k \in DOMAIN prev THEN prev[k] \o urls ELSE urls]

\* {...prev, [sceneId]: urls}
WithResult(prev, sceneId, urls) ==
  [k \in DOMAIN prev \cup {sceneId} |-> IF k = sceneId THEN urls ELSE prev[k]]

\* a loop that a rejected request ends
BatchAfterRequest_FailureEnds(r, ok) ==
  IF r.by = "batch"
  THEN IF ok THEN [batch EXCEPT !.pc = "delay"]
       ELSE [batch EXCEPT !.pc = "idle", !.exit = "completed",
                          !.failed = @ \cup {r.sceneId}]
  ELSE batch

\* a loop that does not await the request it issued
BatchPcAfterEntry_NoAwait(found) == "delay"

\* where the loop is suspended after handleGenerateImage ran to its await,
\* or returned at once for a scene it did not find
BatchPcAfterEntry(found) == IF found THEN "inflight" ELSE "delay"

\* a handleGenerateImage that lets the failure escape: the loop ends in the
\* rejection, never reaching setIsGeneratingAll(false)
BatchAfterRequest_FailureEscapes(r, ok) ==
  IF r.by = "batch"
  THEN IF ok THEN [batch EXCEPT !.pc = "delay"]
       ELSE [batch EXCEPT !.pc = "idle", !.loops = @ - 1,
                          !.failed = @ \cup {r.sceneId}]
  ELSE batch

\* a loop that paces between candidates only: after the request of the last
\* candidate it is past the for-of at once
BatchAfterRequest_NoFinalDelay(r, ok) ==
  IF r.by = "batch"
  THEN IF batch.i >= Len(batch.cands)
       THEN [batch EXCEPT !.pc = "idle", !.exit = "completed", !.loops = @ - 1,
                          !.failed = IF ok THEN @ ELSE @ \cup {r.sceneId}]
       ELSE [batch EXCEPT !.pc = "delay",
                          !.failed = IF ok THEN @ ELSE @ \cup {r.sceneId}]
  ELSE batch

\* the batch loop after its awaited handleGenerateImage returned: it starts
\* the pacing timer
BatchAfterRequest(r, ok) ==
  IF r.by = "batch"
  THEN [batch EXCEPT !.pc = "delay",
                     !.failed = IF ok THEN @ ELSE @ \cup {r.sceneId}]
  ELSE batch

\* history: the response each request of the batch resolved with
WithReturned(b, r, resp) ==
  IF r.by = "batch"
  THEN [b EXCEPT !.returned =
          [x \in DOMAIN @ \cup {r.sceneId} |-> IF x = r.sceneId THEN resp ELSE @[x]]]
  ELSE b

\* request k resolves with images: the try branch and the finally
GenerateSucceeded(k, resp) ==
  /\ k \in 1..Len(requests)
  /\ generatedImages' = WithResult(generatedImages, requests[k].sceneId, DataUrls(resp))
  /\ generatingSceneIds' = StatusOnExit(generatingSceneIds, requests[k].sceneId)
  /\ requests' = RemoveAt(requests, k)
  /\ batch' = WithReturned(BatchAfterRequest(requests[k], TRUE), requests[k], resp)
  /\ lastEvent' = "success"
  /\ lastResp' = resp
  /\ UNCHANGED <<user, scenes, isProcessingPdf, characterImage, characterStyle,
                 isAnalyzingStyle, error, aspectRatio, isGeneratingAll,
                 stopGenerationRef, editing, pdfCalls, styleCalls, nextId,
                 settings>>

\* request k rejects: the catch branch and the finally
GenerateFailed(k, thrown) ==
  /\ k \in 1..Len(requests)
  /\ error' = GenerationError(requests[k].num, thrown)
  /\ generatingSceneIds' = StatusOnExit(generatingSceneIds, requests[k].sceneId)
  /\ requests' = RemoveAt(requests, k)
  /\ batch' = BatchAfterRequest(requests[k], FALSE)
  /\ lastEvent' = "fail"
  /\ lastResp' = <<>>
  /\ UNCHANGED <<user, scenes, isProcessingPdf, characterImage, characterStyle,
                 isAnalyzingStyle, generatedImages, aspectRatio,
                 isGeneratingAll, stopGenerationRef, editing, pdfCalls,
                 styleCalls, nextId,
                 settings>>

\* ------------------------------------------------------------ batch generation
\* One pass of the for loop of handleGenerateAll from its head to the next
\* await, or past the loop to the end of the handler.  b is the invocation
\* with b.i candidates behind it, stop the value of stopGenerationRef.current
\* the head reads, running the value of isGeneratingAll before the pass.
\* a loop head without the stop check
LoopHead_IgnoresStop(b, stop) ==
  IF b.i >= Len(b.cands) THEN "completed" ELSE "body"

\* the head of a loop pass: the for-of is exhausted, the stop check breaks,
\* or the body runs
LoopHead(b, stop) ==
  IF b.i >= Len(b.cands) THEN "completed"
  ELSE IF stop THEN "stopped"
  ELSE "body"

\* a loop that walks the candidates from the end
NextCandidate_FromEnd(b) == b.cands[Len(b.cands) - b.i]

\* the scene the for-of hands to the pass after b.i passes
NextCandidate(b) == b.cands[b.i + 1]

\* a handler whose end leaves the stop flag as the last check read it
BatchLoop_KeepsStop(b, stop, running) ==
  IF LoopHead(b, stop) = "body"
  THEN LET sceneId == NextCandidate(b).id
           found == FindScene(b.scenes, sceneId) # NoScene
       IN /\ GenerateEntry(b.scenes, sceneId, b.aspectRatio,
                           b.characterStyle, "batch")
          /\ batch' = [b EXCEPT !.pc = BatchPcAfterEntry(found),
                                !.i = b.i + 1,
                                !.issued = IF found THEN Append(@, sceneId) ELSE @]
          /\ isGeneratingAll' = running
          /\ stopGenerationRef' = stop
  ELSE /\ batch' = [b EXCEPT !.pc = "idle", !.scenes = <<>>, !.cands = <<>>,
                             !.aspectRatio = "16:9",
                             !.characterStyle = NoStyle,
                             !.exit = LoopHead(b, stop),
                             !.loops = @ - 1]
       /\ isGeneratingAll' = FALSE
       /\ stopGenerationRef' = stop
       /\ UNCHANGED <<requests, generatingSceneIds, error>>

BatchLoop(b, stop, running) ==
  IF LoopHead(b, stop) = "body"
  THEN LET sceneId == NextCandidate(b).id
           found == FindScene(b.scenes, sceneId) # NoScene
       IN /\ GenerateEntry(b.scenes, sceneId, b.aspectRatio,
                           b.characterStyle, "batch")
          /\ batch' = [b EXCEPT !.pc = BatchPcAfterEntry(found),
                                !.i = b.i + 1,
                                !.issued = IF found THEN Append(@, sceneId) ELSE @]
          /\ isGeneratingAll' = running
          /\ stopGenerationRef' = stop
  ELSE /\ batch' = [b EXCEPT !.pc = "idle", !.scenes = <<>>, !.cands = <<>>,
                             !.aspectRatio = "16:9",
                             !.characterStyle = NoStyle,
                             !.exit = LoopHead(b, stop),
                             !.loops = @ - 1]
       /\ isGeneratingAll' = FALSE
       /\ stopGenerationRef' = FALSE
       /\ UNCHANGED <<requests, generatingSceneIds, error>>

\* the invocation a click on Generate All Images creates
NewBatch ==
  [pc |-> "idle", scenes |-> scenes,
   cands |-> ScenesToGenerate(scenes, generatedImages), i |-> 0,
   aspectRatio |-> aspectRatio, characterStyle |-> characterStyle,
   startIds |-> SeqIds(scenes), startKeys |-> DOMAIN generatedImages,
   candIds |-> SeqIds(ScenesToGenerate(scenes, generatedImages)),
   issued |-> <<>>, stopAt |-> -1, stopPc |-> "none", delays |-> 0,
   failed |-> {}, exit |-> "none", startInflight |-> Len(requests),
   returned |-> [k \in {} |-> <<>>], loops |-> batch.loops + 1]

\* a Generate All Images button that is there and enabled while a batch runs
handleGenerateAll_Reentrant ==
  /\ StoryboardShown
  /\ ~isAnalyzingStyle
  /\ Len(requests) < MaxInflight
  /\ BatchLoop(NewBatch, FALSE, TRUE)
  /\ lastEvent' = IF batch'.pc = "idle" THEN "ended"
                  ELSE IF batch.stopAt # -1 THEN "afterStop"
                  ELSE Other
  /\ lastResp' = <<>>
  /\ UNCHANGED <<user, scenes, isProcessingPdf, characterImage, characterStyle,
                 isAnalyzingStyle, generatedImages, aspectRatio, editing,
                 pdfCalls, styleCalls, nextId,
                 settings>>

\* the Generate All Images button: handleGenerateAll up to its first await
handleGenerateAll ==
  /\ StoryboardShown
  /\ ~isGeneratingAll
  /\ ~isGlobalOperationRunning
  /\ Len(requests) < MaxInflight
  /\ BatchLoop(NewBatch, FALSE, TRUE)
  /\ lastEvent' = IF batch'.pc = "idle" THEN "ended"
                  ELSE IF batch.stopAt # -1 THEN "afterStop"
                  ELSE Other
  /\ lastResp' = <<>>
  /\ UNCHANGED <<user, scenes, isProcessingPdf, characterImage, characterStyle,
                 isAnalyzingStyle, generatedImages, aspectRatio, editing,
                 pdfCalls, styleCalls, nextId,
                 settings>>

\* delay(1000) resolves: the loop goes to its next pass
DelayElapsed ==
  /\ batch.pc = "delay"
  /\ BatchLoop([batch EXCEPT !.delays = @ + 1], stopGenerationRef,
               isGeneratingAll)
  /\ lastEvent' = IF batch'.pc = "idle" THEN "ended" ELSE Other
  /\ lastResp' = <<>>
  /\ UNCHANGED <<user, scenes, isProcessingPdf, characterImage, characterStyle,
                 isAnalyzingStyle, generatedImages, aspectRatio, editing,
                 pdfCalls, styleCalls, nextId,
                 settings>>

\* the Stop Generation button
handleStopGeneration ==
  /\ StoryboardShown
  /\ isGeneratingAll
  /\ stopGenerationRef' = TRUE
  /\ batch' = IF stopGenerationRef THEN batch
              ELSE [batch EXCEPT !.stopAt = batch.i, !.stopPc = batch.pc]
  /\ lastEvent' = Other
  /\ lastResp' = <<>>
  /\ UNCHANGED <<user, scenes, isProcessingPdf, characterImage, characterStyle,
                 isAnalyzingStyle, generatedImages, generatingSceneIds, error,
                 aspectRatio, isGeneratingAll, editing, requests, pdfCalls,
                 styleCalls, nextId,
                 settings>>

\* ------------------------------------------------------------- specification
Next ==
  \/ handleLoginSuccess
  \/ handleSignOut
  \/ DismissError
  \/ handlePdfUpload
  \/ \E parsed \in ParsedResponses : PdfResolved(parsed)
  \/ \E thrown \in Thrown : PdfFailed(thrown)
  \/ settings < MaxSettings /\ \E file \in Files : handleCharacterImageUpload(file)
  \/ \E profile \in StyleProfiles : StyleResolved(profile)
  \/ \E thrown \in Thrown : StyleFailed(thrown)
  \/ handleClearCharacter
  \/ \E ar \in {"16:9", "9:16"} : setAspectRatio(ar)
  \/ \E sceneId \in 1..MaxIds : OpenEditor(sceneId)
  \/ \E sceneId \in 1..MaxIds, newPrompt \in Prompts : handleSave(sceneId, newPrompt)
  \/ \E sceneId \in 1..MaxIds : handleCancel(sceneId)
  \/ \E sceneId \in 1..MaxIds : handleGenerateImage(sceneId)
  \/ \E k \in 1..MaxInflight, resp \in ImageResponses : GenerateSucceeded(k, resp)
  \/ \E k \in 1..MaxInflight, thrown \in Thrown : GenerateFailed(k, thrown)
  \/ handleGenerateAll
  \/ DelayElapsed
  \/ handleStopGeneration

Spec == Init /\ [][Next]_vars

\* an unresolved image request is answered, with images or with a failure
Settle(k) ==
  \/ \E resp \in ImageResponses : GenerateSucceeded(k, resp)
  \/ \E thrown \in Thrown : GenerateFailed(k, thrown)

\* The handlers and continuations of sessions that leave the character
\* reference, the aspect ratio and the prompts alone.
BatchNext ==
  \/ handleLoginSuccess
  \/ handleSignOut
  \/ DismissError
  \/ handlePdfUpload
  \/ \E parsed \in ParsedResponses : PdfResolved(parsed)
  \/ \E thrown \in Thrown : PdfFailed(thrown)
  \/ \E sceneId \in 1..MaxIds : handleGenerateImage(sceneId)
  \/ \E k \in 1..MaxInflight, resp \in ImageResponses : GenerateSucceeded(k, resp)
  \/ \E k \in 1..MaxInflight, thrown \in Thrown : GenerateFailed(k, thrown)
  \/ handleGenerateAll
  \/ DelayElapsed
  \/ handleStopGeneration

\* The runs of those sessions in which the provider answers every image
\* request and every pacing timer fires.
FairSpec ==
  /\ Init
  /\ [][BatchNext]_vars
  /\ \A k \in 1..MaxInflight : WF_vars(Settle(k))
  /\ WF_vars(DelayElapsed)

\* The runs that upload character images repeatedly over scripts of at most
\* MaxStyleScenes scenes, with the aspect ratio and the prompts left alone.
StyleNext ==
  \/ handleLoginSuccess
  \/ handleSignOut
  \/ DismissError
  \/ handlePdfUpload
  \/ \E parsed \in {p \in ParsedResponses : Len(p) <= MaxStyleScenes} : PdfResolved(parsed)
  \/ \E thrown \in Thrown : PdfFailed(thrown)
  \/ settings < MaxUploads /\ \E file \in Files : handleCharacterImageUpload(file)
  \/ \E profile \in StyleProfiles : StyleResolved(profile)
  \/ \E thrown \in Thrown : StyleFailed(thrown)
  \/ handleClearCharacter
  \/ \E sceneId \in 1..MaxIds : handleGenerateImage(sceneId)
  \/ \E k \in 1..MaxInflight, resp \in ImageResponses : GenerateSucceeded(k, resp)
  \/ \E k \in 1..MaxInflight, thrown \in Thrown : GenerateFailed(k, thrown)
  \/ handleGenerateAll
  \/ DelayElapsed
  \/ handleStopGeneration

StyleSpec == Init /\ [][StyleNext]_vars

\* ------------------------------------------------------------------- claims
Range(f) == {f[x] : x \in DOMAIN f}
Last(q) == q[Len(q)]
IsPrefix(p, q) == Len(p) <= Len(q) /\ p = SubSeq(q, 1, Len(p))
BatchRequests == {k \in 1..Len(requests) : requests[k].by = "batch"}
\* a batch whose scenes had no result at the click, with no stop signalled
PlainBatch ==
  /\ batch.exit # "none" \/ batch.pc # "idle"
  /\ Range(batch.startIds) \cap batch.startKeys = {}
  /\ batch.stopAt = -1

\* C1: a batch started on N scenes none of which has a result, with no stop
\* signalled, issues its requests one per scene in the order of the store at
\* the click; the k-th request is issued after k-1 pacing delays have
\* elapsed, each begun when the previous request resolved; and when the
\* batch has ended, the requests issued are exactly the N scenes.
C1_BatchIssuesEveryScene ==
  PlainBatch =>
    /\ IsPrefix(batch.issued, batch.startIds)
    /\ batch.pc = "inflight" =>
         /\ Len(batch.issued) = batch.delays + 1
         /\ BatchRequests # {}
    /\ batch.pc = "delay" =>
         /\ Len(batch.issued) = batch.delays + 1
         /\ BatchRequests = {}
    /\ batch.pc = "idle" =>
         /\ batch.exit = "completed"
         /\ batch.issued = batch.startIds
         /\ batch.delays = Len(batch.startIds)

\* a batch on two scenes ended after both requests succeeded
C1_Witness ==
  /\ PlainBatch
  /\ batch.pc = "idle"
  /\ Len(batch.startIds) = 2
  /\ batch.issued = batch.startIds
  /\ batch.failed = {}
  /\ Range(batch.startIds) \subseteq DOMAIN generatedImages

\* C2: when the stop signal is set during the pacing delay that follows the
\* k-th request of a batch, with a candidate still to come, the batch issues
\* no further request, and when it has ended it has issued exactly k
\* requests, left the loop through the stop check, and the generating-all
\* flag is down.
C2_StopBetweenIterations ==
  (batch.stopPc = "delay" /\ batch.stopAt < Len(batch.candIds)) =>
    /\ Len(batch.issued) = batch.stopAt
    /\ batch.pc \in {"delay", "idle"}
    /\ batch.pc = "idle" => batch.exit = "stopped" /\ ~isGeneratingAll

\* a batch of two candidates stopped during the delay after its first
\* request, and ended
C2_Witness ==
  /\ batch.stopPc = "delay"
  /\ batch.stopAt = 1
  /\ Len(batch.candIds) = 2
  /\ batch.pc = "idle"
  /\ batch.exit = "stopped"
  /\ batch.issued = <<batch.candIds[1]>>

\* the request that resolved or rejected in a step that removed one
Resolved ==
  CHOOSE r \in Range(requests) :
    \E k \in 1..Len(requests) : requests[k] = r /\ requests' = RemoveAt(requests, k)

\* C3: when the stop signal is set while a request of the batch is in
\* flight, the request stays in flight until the provider answers; when it
\* resolves with images the step writes their URLs under the scene id and
\* takes the id out of GenerationStatus; and the batch issues no request
\* after the signal.
C3_StopDuringRequest ==
  /\ [](batch.stopPc = "inflight" =>
          /\ Len(batch.issued) = batch.stopAt
          /\ batch.pc = "inflight" => BatchRequests # {})
  /\ [][(/\ batch.stopPc = "inflight"
         /\ batch.pc = "inflight"
         /\ batch'.pc = "delay"
         /\ lastEvent' = "success")
        => /\ Resolved.by = "batch"
           /\ Resolved.sceneId = Last(batch.issued)
           /\ Resolved.sceneId \in DOMAIN generatedImages'
           /\ generatedImages'[Resolved.sceneId] \in
                {DataUrls(resp) : resp \in ImageResponses}
           /\ Resolved.sceneId \notin generatingSceneIds'
           /\ batch'.issued = batch.issued]_vars

\* a batch stopped during its first request, whose images arrived and were
\* stored, and that then ended with its second candidate never requested
C3_Witness ==
  /\ batch.stopPc = "inflight"
  /\ batch.stopAt = 1
  /\ Len(batch.candIds) = 2
  /\ batch.pc = "idle"
  /\ batch.failed = {}
  /\ batch.issued = <<batch.candIds[1]>>
  /\ batch.candIds[1] \in DOMAIN generatedImages

\* C4: no two unresolved image requests are for the same scene id.
C4_NoDuplicateInflight ==
  \A j, k \in 1..Len(requests) :
    j # k => requests[j].sceneId # requests[k].sceneId

\* C5: a scene id is in GenerationStatus exactly when a request for it is
\* unresolved.
C5_StatusTracksInflight ==
  generatingSceneIds = {requests[k].sceneId : k \in 1..Len(requests)}

\* C6: every key of GenerationResult and every member of GenerationStatus
\* is the id of a scene in the Scene Store.
C6_ReferentialInvariant ==
  /\ DOMAIN generatedImages \subseteq IdSet(scenes)
  /\ generatingSceneIds \subseteq IdSet(scenes)

\* C7: at most one request issued by the batch loop is unresolved at any
\* time (exactly one while the loop awaits, none otherwise), and the requests
\* the batch has issued are the first of its candidates, in the order the
\* candidates have in the store at the click.
C7_BatchSequential ==
  /\ Cardinality(BatchRequests) <= 1
  /\ Cardinality(BatchRequests) = (IF batch.pc = "inflight" THEN 1 ELSE 0)
  /\ IsPrefix(batch.issued, batch.candIds)
  /\ \A j, k \in 1..Len(batch.candIds) :
       j < k =>
         \E m, n \in 1..Len(batch.startIds) :
           /\ m < n
           /\ batch.startIds[m] = batch.candIds[j]
           /\ batch.startIds[n] = batch.candIds[k]

\* the batch awaits its second request after its first one rejected, a stop
\* signalled
C7_Witness ==
  /\ batch.pc = "inflight"
  /\ Len(batch.issued) = 2
  /\ batch.failed # {}
  /\ stopGenerationRef
  /\ Cardinality(BatchRequests) = 1

\* C8: the candidates of a batch are the scenes of the store at the click
\* whose id is no key of GenerationResult at the click, in store order, and
\* the batch issues no request for a scene whose id was a key then.
C8_CandidateSelection ==
  /\ batch.candIds =
       SelectSeq(batch.startIds, LAMBDA id : id \notin batch.startKeys)
  /\ Range(batch.issued) \cap batch.startKeys = {}
  /\ batch.pc # "idle" => SeqIds(batch.cands) = batch.candIds

\* a batch over two scenes, the first holding an entry of no URL at the
\* click, that requested the second scene only and ended
C8_Witness ==
  /\ Len(batch.startIds) = 2
  /\ batch.startKeys = {batch.startIds[1]}
  /\ batch.issued = <<batch.startIds[2]>>
  /\ batch.exit = "completed"
  /\ batch.startIds[1] \in DOMAIN generatedImages
  /\ generatedImages[batch.startIds[1]] = <<>>

\* C9: a batch in which no stop is signalled goes on after a request that
\* rejected: it is suspended at a request or at the pacing delay until every
\* candidate has been requested, and ends through the completed exit only.
C9_FailureDoesNotHalt ==
  (batch.stopAt = -1 /\ batch.failed # {}) =>
    /\ batch.failed \subseteq Range(batch.issued)
    /\ batch.pc = "idle" =>
         /\ batch.exit = "completed"
         /\ batch.issued = batch.candIds
    /\ Len(batch.issued) < Len(batch.candIds) => batch.pc \in {"inflight", "delay"}

\* the first request of a batch of two rejected, the second was issued, and
\* the batch ended with no stop signalled
C9_Witness ==
  /\ batch.stopAt = -1
  /\ Len(batch.candIds) = 2
  /\ batch.candIds[1] \in batch.failed
  /\ batch.issued = batch.candIds
  /\ batch.pc = "idle"
  /\ batch.exit = "completed"

\* C10: the step in which a request for scene id s rejects leaves
\* GenerationResult as it was, takes s out of GenerationStatus, and sets the
\* error report to the title and message that carry the display number of
\* the scene.
C10_FailedGeneration ==
  [][lastEvent' = "fail" =>
       /\ generatedImages' = generatedImages
       /\ Resolved.sceneId \notin generatingSceneIds'
       /\ generatingSceneIds' = generatingSceneIds \ {Resolved.sceneId}
       /\ error' # NoError
       /\ error'.title = <<"Failed to generate image for scene ", Resolved.num, ".">>
       /\ error'.message \in
            {GenerationFailure(Resolved.num, thrown) : thrown \in Thrown}
       /\ FindScene(scenes, Resolved.sceneId) # NoScene =>
            Resolved.num = FindScene(scenes, Resolved.sceneId).scene]_vars

\* a request for a scene that holds an image has just rejected: the image
\* is kept, the id is out of GenerationStatus, the error is set
C10_Witness ==
  /\ lastEvent = "fail"
  /\ error # NoError
  /\ \E sc \in Range(scenes) :
       /\ sc.id \in DOMAIN generatedImages
       /\ generatedImages[sc.id] # <<>>
       /\ sc.id \notin generatingSceneIds
       /\ error.title = <<"Failed to generate image for scene ", sc.scene, ".">>

\* handleGenerateAll has just ended a batch that was clicked with no result
\* stored and no request in flight, that was never stopped, and of which
\* some requests resolved and others rejected
MixedBatchEnded ==
  /\ lastEvent = "ended"
  /\ batch.startKeys = {}
  /\ batch.startInflight = 0
  /\ batch.stopAt = -1
  /\ batch.failed # {}
  /\ DOMAIN batch.returned # {}

\* the URLs of the images of a response
UrlsOf(resp) == [i \in 1..Len(resp) |-> <<"data:image/jpeg;base64,", resp[i]>>]

\* GenerationResult holds, for exactly the candidates whose request resolved,
\* the URLs that request returned
ResultsAreTheReturned ==
  /\ DOMAIN generatedImages = DOMAIN batch.returned
  /\ DOMAIN batch.returned = Range(batch.issued) \ batch.failed
  /\ \A s \in DOMAIN batch.returned :
       generatedImages[s] = UrlsOf(batch.returned[s])

\* C11 as stated: when a mixed batch (empty GenerationResult and nothing in
\* flight at the click, never stopped) terminates, GenerationResult has an
\* entry for exactly the candidates whose request succeeded, holding the
\* returned URLs, GenerationStatus is empty, the exit is the completed one,
\* and if the last candidate failed the error report references its display
\* number.
C11_EndStateAsStated ==
  MixedBatchEnded =>
    /\ ResultsAreTheReturned
    /\ generatingSceneIds = {}
    /\ batch.exit = "completed"
    /\ Last(batch.issued) \in batch.failed =>
         /\ error # NoError
         /\ FindScene(scenes, Last(batch.issued)) # NoScene =>
              error.title = <<"Failed to generate image for scene ",
                              FindScene(scenes, Last(batch.issued)).scene, ".">>

\* C11: when a mixed batch (empty GenerationResult and nothing in flight at
\* the click, never stopped) terminates and the Scene Store still holds the
\* scenes of the click (no sign-out since), GenerationResult has an entry
\* for exactly the candidates whose request succeeded, holding the returned
\* URLs, GenerationStatus is empty, the exit is the completed one, and if
\* the last candidate failed the error report is either the one that
\* references its display number or absent (dismissed during the last
\* pacing delay).
C11_EndStateOfMixedBatch ==
  (MixedBatchEnded /\ SeqIds(scenes) = batch.startIds) =>
    /\ ResultsAreTheReturned
    /\ generatingSceneIds = {}
    /\ batch.exit = "completed"
    /\ Last(batch.issued) \in batch.failed =>
         \/ error = NoError
         \/ error.title = <<"Failed to generate image for scene ",
                            FindScene(scenes, Last(batch.issued)).scene, ".">>

\* a batch of two has just ended with the first request resolved with an
\* image and the second rejected, the error naming the second scene
C11_Witness ==
  /\ MixedBatchEnded
  /\ SeqIds(scenes) = batch.startIds
  /\ Len(batch.issued) = 2
  /\ batch.issued[2] \in batch.failed
  /\ batch.issued[1] \in DOMAIN generatedImages
  /\ generatedImages[batch.issued[1]] # <<>>
  /\ error # NoError
  /\ error.title = <<"Failed to generate image for scene ",
                     FindScene(scenes, batch.issued[2]).scene, ".">>

\* C12: a pass of the batch loop that runs handleGenerateImage for a scene
\* id that is not in the Scene Store (the store was emptied by sign-out
\* since the click) issues no request and leaves GenerationStatus,
\* GenerationResult and the error as they were.
C12_UnknownSceneIsNoOp ==
  [][(/\ batch.pc = "delay"
      /\ batch'.i = batch.i + 1
      /\ batch.cands[batch'.i].id \notin IdSet(scenes))
     => /\ requests' = requests
        /\ generatingSceneIds' = generatingSceneIds
        /\ generatedImages' = generatedImages
        /\ error' = error]_vars

\* C13: in every step, an entry of GenerationResult that is there after the
\* step either was there with the same URLs before it, or is the entry of
\* the scene whose request resolved in the step and holds exactly the URLs
\* of that response, whatever the entry held before; and a request that
\* resolves always writes its scene's entry.  (Sign-out and a new upload
\* remove every entry; they add and modify none.)
C13_WrittenOnlyBySuccess ==
  [][/\ \A s \in DOMAIN generatedImages' :
          \/ s \in DOMAIN generatedImages /\ generatedImages'[s] = generatedImages[s]
          \/ /\ lastEvent' = "success"
             /\ s = Resolved.sceneId
             /\ generatedImages'[s] = UrlsOf(lastResp')
      /\ lastEvent' = "success" =>
           /\ Resolved.sceneId \in DOMAIN generatedImages'
           /\ generatedImages'[Resolved.sceneId] = UrlsOf(lastResp')]_vars

\* a scene of the store whose entry held the image a batch request returned
\* has just been regenerated with a response that carries no image: the
\* entry is the empty URL sequence
C13_Witness ==
  /\ lastEvent = "success"
  /\ lastResp = <<>>
  /\ batch.pc = "idle"
  /\ \E s \in IdSet(scenes) \cap DOMAIN batch.returned \cap DOMAIN generatedImages :
       /\ batch.returned[s] # <<>>
       /\ generatedImages[s] = <<>>

\* C14: in every reachable state at most one invocation of handleGenerateAll
\* is between its entry and its end, and while one is, isGeneratingAll is
\* set, so the Generate All button is not rendered and no second batch can
\* be started - also after a sign-out and sign-in during the batch.
C14_AtMostOneBatch ==
  /\ batch.loops <= 1
  /\ batch.loops = 1 <=> batch.pc # "idle"
  /\ batch.pc # "idle" => isGeneratingAll

\* a batch is still running after the user signed out, signed in again and
\* uploaded another script: the storyboard is shown with isGeneratingAll set
C14_Witness ==
  /\ batch.pc # "idle"
  /\ batch.loops = 1
  /\ StoryboardShown
  /\ SeqIds(scenes) # batch.startIds
  /\ isGeneratingAll

\* the step is a failure that sets an error report: an image request, the
\* decomposition call or the style analysis call rejected
FailureReported ==
  /\ error' # NoError
  /\ \/ lastEvent' = "fail"
     \/ pdfCalls' < pdfCalls
     \/ styleCalls' < styleCalls

\* the step is the user closing the ErrorModal
Dismissed ==
  /\ error' = NoError
  /\ UNCHANGED <<user, scenes, isProcessingPdf, characterImage, characterStyle,
                 isAnalyzingStyle, generatedImages, generatingSceneIds,
                 aspectRatio, isGeneratingAll, stopGenerationRef, editing,
                 requests, pdfCalls, styleCalls, batch, nextId>>

\* C15: an error report that is set stays as it is in every step except the
\* user dismissing it and a later failure replacing it; no step that starts
\* another operation (a pass of the batch loop, a click on Generate Image,
\* an upload) discards it.
C15_ErrorStaysUntilDismissed ==
  [][(error # NoError /\ error' # error) => (Dismissed \/ FailureReported)]_vars

\* C16: after the step in which the style analysis rejects (the provider
\* fails or the response does not parse), no StyleProfile is active and no
\* character reference image is held, also when the profile of an earlier
\* upload was active until that step.
C16_StyleFailureClearsProfile ==
  lastEvent \in {"styleFail", "styleFailActive"} =>
    /\ characterStyle = NoStyle
    /\ characterImage = NoFile
    /\ error # NoError
    /\ error.title = <<"Failed to analyze character style.">>

\* the analysis of a second upload has just rejected while the profile of
\* the first upload was active: profile and image are gone
C16_Witness ==
  /\ lastEvent = "styleFailActive"
  /\ settings = 2
  /\ characterStyle = NoStyle
  /\ characterImage = NoFile

\* the step is the decomposition call rejecting (the provider fails or the
\* response does not parse)
DecompositionFailed ==
  /\ pdfCalls' < pdfCalls
  /\ error' # NoError
  /\ error'.title = <<"Failed to process PDF.">>

\* C17: after the step in which script decomposition fails, the Scene Store
\* is empty and GenerationResult is empty.
C17_DecompositionFailureKeepsNothing ==
  [][DecompositionFailed =>
       /\ scenes' = <<>>
       /\ DOMAIN generatedImages' = {}]_vars

\* the quality-keyword suffix, piece by piece
FixedSuffix ==
  <<". Technical keywords for quality: ",
    "masterpiece, best quality, high quality, absurdres, ultra-detailed", ".">>

\* the pieces of a composed prompt before its last three
BeforeSuffix(prompt) == SubSeq(prompt, 1, Len(prompt) - 3)

\* C18: the prompt of every image request, composed with or without a style
\* profile, ends with the same fixed quality-keyword suffix, and the prompt
\* composed without a style profile is exactly the scene's prompt followed
\* by that suffix.
C18_PromptSuffix ==
  \A k \in 1..Len(requests) :
    LET r == requests[k]
    IN /\ Len(r.prompt) > 3
       /\ SubSeq(r.prompt, Len(r.prompt) - 2, Len(r.prompt)) = FixedSuffix
       /\ r.characterStyle = NoStyle => r.prompt = <<r.scenePrompt>> \o FixedSuffix

\* two requests are in flight, one composed without a style profile and one
\* composed with one
C18_Witness ==
  \E k1, k2 \in 1..Len(requests) :
    /\ requests[k1].characterStyle = NoStyle
    /\ requests[k1].prompt = <<requests[k1].scenePrompt>> \o FixedSuffix
    /\ requests[k2].characterStyle \in StyleProfiles
    /\ SubSeq(requests[k2].prompt, Len(requests[k2].prompt) - 2,
              Len(requests[k2].prompt)) = FixedSuffix

\* C19: the prompt of every image request composed with a style profile
\* holds, before the quality-keyword suffix, the profile's artistic style,
\* then the scene's prompt, then the profile's character description, each
\* verbatim.
C19_PromptWithStyle ==
  \A k \in 1..Len(requests) :
    LET r == requests[k]
        body == BeforeSuffix(r.prompt)
    IN r.characterStyle # NoStyle =>
         \E a, b, c \in 1..Len(body) :
           /\ a < b /\ b < c
           /\ body[a] = r.characterStyle.artistic_style
           /\ body[b] = r.scenePrompt
           /\ body[c] = r.characterStyle.character_description

\* a request of a batch is in flight that was composed with a style profile:
\* its prompt holds the style, the scene's prompt and the description
C19_Witness ==
  \E k \in 1..Len(requests) :
    /\ requests[k].by = "batch"
    /\ requests[k].characterStyle \in StyleProfiles
    /\ \E a, b, c \in 1..Len(requests[k].prompt) - 3 :
         /\ a < b /\ b < c
         /\ requests[k].prompt[a] = requests[k].characterStyle.artistic_style
         /\ requests[k].prompt[b] = requests[k].scenePrompt
         /\ requests[k].prompt[c] = requests[k].characterStyle.character_description

\* the step issues an image request
RequestIssued == Len(requests') > Len(requests)

\* C20: every image request, whether issued by a click or by a pass of a
\* batch that was running when the user saved a prompt or switched the
\* ratio, carries the aspect ratio configured at the moment it is issued
\* and is composed from the prompt the Scene Store holds for its scene at
\* that moment.
C20_RequestUsesCurrentSettings ==
  [][RequestIssued =>
       LET r == Last(requests')
       IN /\ r.aspectRatio = aspectRatio
          /\ FindScene(scenes, r.sceneId) # NoScene =>
               r.scenePrompt = FindScene(scenes, r.sceneId).prompt]_vars

\* C21: the step in which a request of the batch settles, with images or
\* with a failure, for the last candidate as for any other, leaves the loop
\* in its pacing delay with no request issued and the batch still running;
\* and a running loop goes on to its next pass (stop check, next request)
\* or returns only from that delay, by the timer firing.  So between two
\* requests of a batch there is always a delay.
C21_PacingAfterEveryCandidate ==
  [][/\ (lastEvent' \in {"success", "fail"} /\ Resolved.by = "batch") =>
          /\ batch'.pc = "delay"
          /\ batch'.i = batch.i
          /\ Len(requests') < Len(requests)
          /\ isGeneratingAll' = isGeneratingAll
     /\ (batch.pc # "idle" /\ (batch'.i # batch.i \/ batch'.pc = "idle")) =>
          /\ batch.pc = "delay"
          /\ batch'.delays = batch.delays + 1]_vars

\* the request of the last candidate has just rejected: the loop is in its
\* pacing delay, the batch still running
C21_Witness ==
  /\ lastEvent = "fail"
  /\ batch.pc = "delay"
  /\ batch.i = Len(batch.cands)
  /\ Len(batch.cands) = 2
  /\ Last(batch.issued) \in batch.failed
  /\ isGeneratingAll

\* C22: when every image request is eventually answered and every pacing
\* timer eventually fires, a batch that has started eventually returns, stop
\* signalled or not: the loop is past its end, isGeneratingAll is false, no
\* request of the batch is unresolved and GenerationStatus holds none of the
\* scene ids the batch issued a request for.
C22_BatchTerminates ==
  (batch.pc # "idle") ~>
    (/\ lastEvent = "ended"
     /\ batch.pc = "idle"
     /\ ~isGeneratingAll
     /\ BatchRequests = {}
     /\ generatingSceneIds \cap Range(batch.issued) = {})

\* a batch of two candidates has just returned through the stop exit after
\* its first request: isGeneratingAll is false and the id of the scene it
\* requested is out of GenerationStatus
C22_Witness ==
  /\ lastEvent = "ended"
  /\ batch.exit = "stopped"
  /\ Len(batch.candIds) = 2
  /\ Len(batch.issued) = 1
  /\ ~isGeneratingAll
  /\ batch.issued[1] \notin generatingSceneIds

\* C23: the stop flag is clear whenever no handleGenerateAll is running, and
\* a flag that is set was set during the batch that is running; a batch in
\* which no stop is signalled passes every stop check, whatever was
\* signalled during an earlier batch: when it has returned it has issued a
\* request for every one of its candidates and left through the completed
\* exit.
C23_NoStaleStop ==
  /\ batch.pc = "idle" => ~stopGenerationRef
  /\ ~isGeneratingAll => ~stopGenerationRef
  /\ stopGenerationRef => batch.stopAt # -1
  /\ (batch.pc = "idle" /\ batch.exit # "none" /\ batch.stopAt = -1) =>
       /\ batch.exit = "completed"
       /\ batch.issued = batch.candIds
  /\ lastEvent = "afterStop" =>
       /\ batch.pc = "inflight"
       /\ batch.issued = <<batch.candIds[1]>>

\* Generate All has just been clicked after a batch in which a stop was
\* signalled: the flag is clear and the request of the first candidate is in
\* flight
C23_Witness ==
  /\ lastEvent = "afterStop"
  /\ ~stopGenerationRef
  /\ batch.stopAt = -1
  /\ batch.pc = "inflight"
  /\ batch.candIds # <<>>
  /\ batch.issued = <<batch.candIds[1]>>

\* C24: in a state in which the user is signed in, the Scene Store is empty
\* and the error report is the one of a failed decomposition, the view
\* rendered holds the error dialog.
C24_DecompositionFailureShown ==
  (/\ user
   /\ scenes = <<>>
   /\ error # NoError
   /\ error.title = <<"Failed to process PDF.">>) => ErrorModalShown

\* C25: a step that issues the request of a click on a card's Generate or
\* Regenerate button is taken only while the scene's id is not in
\* GenerationStatus, no batch is running and no style analysis is in
\* flight; so a request issued while a batch is running is one of the batch
\* loop.
C25_SingleGenerationGated ==
  [][RequestIssued =>
       /\ Last(requests').by = "single" =>
            /\ Last(requests').sceneId \notin generatingSceneIds
            /\ ~isGeneratingAll
            /\ batch.pc = "idle"
            /\ ~isAnalyzingStyle
            /\ styleCalls = 0
       /\ (isGeneratingAll' \/ batch'.pc # "idle") =>
            Last(requests').by = "batch"]_vars

\* a batch is in its pacing delay with no request in flight, the storyboard
\* shown: the buttons of a scene that is not in GenerationStatus are
\* disabled
C25_Witness ==
  /\ StoryboardShown
  /\ batch.pc = "delay"
  /\ isGeneratingAll
  /\ requests = <<>>
  /\ \E s \in IdSet(scenes) : s \notin generatingSceneIds /\ isDisabled(s)

\* C26: in every reachable state, if a StyleProfile is active then a
\* character reference image is held.
C26_ProfileImpliesImage ==
  characterStyle # NoStyle => characterImage # NoFile

\* C27: while the user is signed out (no upload can be started before the
\* next sign-in), the Scene Store, GenerationResult and the StyleProfile
\* are empty, whatever call started before the sign-out resolves.
C27_SignOutEmptiesForGood ==
  ~user =>
    /\ scenes = <<>>
    /\ DOMAIN generatedImages = {}
    /\ characterStyle = NoStyle

====
